---- MODULE Spec2Model ----
(***************************************************************************)
(* Model of the timeline engine of macronade_pyside6:                      *)
(*   models.py            SceneItem, SceneSnapshot, Layer,                 *)
(*                        KeyframeSnapshot, Timeline                       *)
(*   timeline_service.py  _lerp, _lerp_angle, _interpolate_item,           *)
(*                        interpolate_snapshot, snapshot_at_frame,         *)
(*                        jump_prev_keyframe, jump_next_keyframe           *)
(* Floats are modelled as exact rationals [n, d] in lowest terms (d > 0),  *)
(* so float rounding is outside the model.  A stored KeyframeSnapshot is   *)
(* identified by the key it is stored under; a snapshot built by           *)
(* interpolate_snapshot is a fresh object.                                 *)
(***************************************************************************)
EXTENDS Integers, Sequences, FiniteSets, TLC

VARIABLES keyframes, keyframe_states, current_frame, args, ret

vars == <<keyframes, keyframe_states, current_frame, args, ret>>

(* ------------------------------ bounds --------------------------------- *)
MaxFrame == 3
MaxKeys == 3
MaxT == 3
MaxDelta == 400

Frames == 0..MaxFrame

(* frame queried by test_interpolated_snapshot *)
TestFrame == 5
TestLastKey == 10

QueryFrames == Frames \cup {TestFrame}

(* ---------------------------- rationals -------------------------------- *)
Abs(i) == IF i < 0 THEN -i ELSE i

RECURSIVE Gcd(_, _)
Gcd(a, b) == IF b = 0 THEN a ELSE Gcd(b, a % b)

QNorm(n, d) ==
  LET g == Gcd(Abs(n), d) IN [n |-> n \div g, d |-> d \div g]

Q(i) == [n |-> i, d |-> 1]

QAdd(p, q) == QNorm(p.n * q.d + q.n * p.d, p.d * q.d)
QSub(p, q) == QNorm(p.n * q.d - q.n * p.d, p.d * q.d)
QMul(p, q) == QNorm(p.n * q.n, p.d * q.d)
QMod(p, m) == QNorm(p.n % (m * p.d), p.d)

(* int / int true division; the divisor is non-zero where it is used *)
QDiv(a, b) == IF b > 0 THEN QNorm(a, b) ELSE QNorm(-a, -b)

(* ------------------------- sequences and sets -------------------------- *)
Range(s) == {s[i] : i \in DOMAIN s}

SeqsUpTo(S, n) == UNION {[1..m -> S] : m \in 0..n}

SetMin(S) == CHOOSE m \in S : \A x \in S : m <= x
SetMax(S) == CHOOSE m \in S : \A x \in S : x <= m

RECURSIVE SortedSeq(_)
SortedSeq(S) ==
  IF S = {} THEN <<>>
  ELSE LET m == SetMin(S) IN <<m>> \o SortedSeq(S \ {m})

(* ----------------------------- data model ------------------------------ *)
(* None: the empty value, false in a condition as the empty dict is *)
NoneValue == <<>>

EmptyDict == <<>>

SceneItem(id, kind, label, asset, x, y, scale, rotation, width, height, variants, member_rotations, attachment) ==
  [item_id |-> id, kind |-> kind, label |-> label, asset_path |-> asset,
   x |-> Q(x), y |-> Q(y), scale |-> Q(scale), rotation |-> Q(rotation),
   width |-> Q(width), height |-> Q(height),
   variants |-> variants, member_rotations |-> member_rotations,
   attachment |-> attachment]

Layer(id, name, visible, locked, kind) ==
  [layer_id |-> id, name |-> name, visible |-> visible, locked |-> locked,
   kind |-> kind]

SceneSnapshot(path, size, items) ==
  [background_path |-> path, background_size |-> size, items |-> items]

KeyframeSnapshot(scene, layers, active) ==
  [scene |-> scene, layers |-> layers, active_layer_id |-> active]

(* the two keyframes of _sample_project_dict *)
SnapFirst ==
  KeyframeSnapshot(
    SceneSnapshot("/decors/defaut.png", NoneValue,
      <<SceneItem(1, "objet", "Test", "/objets/wow.svg", 10, 10, 1, 0,
                  100, 60, EmptyDict, EmptyDict, NoneValue)>>),
    <<Layer(1, "Test", TRUE, FALSE, "item")>>, 1)

SnapLast ==
  KeyframeSnapshot(
    SceneSnapshot("/decors/defaut.png", NoneValue,
      <<SceneItem(1, "objet", "Test", "/objets/wow.svg", 110, 210, 2, 90,
                  100, 60, EmptyDict, EmptyDict, NoneValue)>>),
    <<Layer(1, "Test", TRUE, FALSE, "item")>>, 1)

(* a keyframe with another item order, an item of its own, and other
   non-interpolated fields for item 1 *)
SnapOther ==
  KeyframeSnapshot(
    SceneSnapshot("/decors/nuit.png", <<800, 600>>,
      <<SceneItem(2, "pantin", "Bras", "/pantins/bras.svg", -40, 30, 3, 350,
                  20, 80, [tenue |-> "rouge"], [coude |-> Q(45)],
                  [pantin_id |-> 1, member_id |-> "main",
                   offset_x |-> Q(5), offset_y |-> Q(-5)]),
        SceneItem(1, "decor", "Autre", "/objets/autre.svg", 0, 50, 4, 270,
                  10, 10, [tenue |-> "bleu"], EmptyDict, NoneValue)>>),
    <<Layer(2, "Bras", FALSE, TRUE, "pantin"),
      Layer(1, "Autre", TRUE, FALSE, "item")>>, 2)

SnapshotSeq == <<SnapFirst, SnapLast, SnapOther>>

SnapshotPool == Range(SnapshotSeq)

(* the projects loaded: any stored order of keyframes, any set of keys of
   keyframeStates, the snapshot stored under a key varying with the key *)
Timelines ==
  {[keyframes |-> ks,
    keyframe_states |-> [k \in D |-> SnapshotSeq[(k % Len(SnapshotSeq)) + 1]]] :
     ks \in SeqsUpTo(Frames, MaxKeys), D \in SUBSET Frames}

SampleTimeline ==
  [keyframes |-> <<0, TestLastKey>>,
   keyframe_states |-> (0 :> SnapFirst) @@ (TestLastKey :> SnapLast)]

TValues == {QNorm(i, j) : i \in 0..MaxT, j \in 1..MaxT}

StartAngles == {0, 10, 350, -90, 540}

(* --------------------------- timeline_service -------------------------- *)
_lerp_unscaled(start, end, t) == QAdd(start, QMul(end, t))

_lerp(start, end, t) == QAdd(start, QMul(QSub(end, start), t))

LerpAngleDelta_linear(start, end) == QSub(end, start)

LerpAngleDelta(start, end) ==
  QSub(QMod(QAdd(QMod(QSub(end, start), 360), Q(540)), 360), Q(180))

_lerp_angle(start, end, t) == QAdd(start, QMul(LerpAngleDelta(start, end), t))

_interpolate_item(base, other, t) ==
  [base EXCEPT !.x = _lerp(base.x, other.x, t),
               !.y = _lerp(base.y, other.y, t),
               !.scale = _lerp(base.scale, other.scale, t),
               !.rotation = _lerp_angle(base.rotation, other.rotation, t)]

(* {item.item_id: item for item in nxt.scene.items}: the last item of an id wins *)
OtherMap(items) ==
  [id \in {items[i].item_id : i \in DOMAIN items} |->
     items[SetMax({i \in DOMAIN items : items[i].item_id = id})]]

BlendItems_union(prev_items, nxt_items, t) ==
  LET other_map == OtherMap(nxt_items)
      prev_ids == {prev_items[i].item_id : i \in DOMAIN prev_items}
  IN [i \in DOMAIN prev_items |->
        LET item == prev_items[i] IN
        IF item.item_id \in DOMAIN other_map
        THEN _interpolate_item(item, other_map[item.item_id], t)
        ELSE item]
     \o SelectSeq(nxt_items, LAMBDA item : item.item_id \notin prev_ids)

(* the list comprehension over prev.scene.items *)
BlendItems(prev_items, nxt_items, t) ==
  LET other_map == OtherMap(nxt_items) IN
  [i \in DOMAIN prev_items |->
     LET item == prev_items[i] IN
     IF item.item_id \in DOMAIN other_map
     THEN _interpolate_item(item, other_map[item.item_id], t)
     ELSE item]

interpolate_snapshot(prev, nxt, t) ==
  KeyframeSnapshot(
    SceneSnapshot(prev.scene.background_path, prev.scene.background_size,
                  BlendItems(prev.scene.items, nxt.scene.items, t)),
    prev.layers, prev.active_layer_id)

(* results of snapshot_at_frame *)
ReturnNone == [tag |-> "none"]
ReturnStored(states, k) == [tag |-> "stored", key |-> k, value |-> states[k]]
RaiseKeyError(k) == [tag |-> "KeyError", key |-> k]
RaiseIndexError == [tag |-> "IndexError"]
RaiseZeroDivision == [tag |-> "ZeroDivisionError"]

(* timeline.keyframe_states[k] *)
Lookup(states, k) ==
  IF k \in DOMAIN states THEN ReturnStored(states, k) ELSE RaiseKeyError(k)

(* `not timeline.keyframe_states` *)
NoStates(ks, states) == DOMAIN states = {}

IsExactKey_listed(ks, states, frame) ==
  frame \in DOMAIN states /\ frame \in Range(ks)

(* `frame in timeline.keyframe_states` *)
IsExactKey(ks, states, frame) == frame \in DOMAIN states

SortedKeys_stored(ks) == ks

(* sorted(set(timeline.keyframes)) *)
SortedKeys(ks) == SortedSeq(Range(ks))

PrevFrame_first(before) == before[1]

(* before[-1] and after[0] *)
PrevFrame(before) == before[Len(before)]
NextFrame(after) == after[1]

Ratio(frame, prev_frame, next_frame) ==
  QDiv(frame - prev_frame, next_frame - prev_frame)

snapshot_at_frame(ks, states, frame) ==
  IF NoStates(ks, states) THEN ReturnNone
  ELSE IF IsExactKey(ks, states, frame) THEN Lookup(states, frame)
  ELSE
    LET sorted == SortedKeys(ks)
        before == SelectSeq(sorted, LAMBDA key : key < frame)
        after == SelectSeq(sorted, LAMBDA key : key > frame)
    IN
    IF before = <<>> THEN
      (IF sorted = <<>> THEN RaiseIndexError ELSE Lookup(states, sorted[1]))
    ELSE IF after = <<>> THEN Lookup(states, sorted[Len(sorted)])
    ELSE
      LET prev_frame == PrevFrame(before)
          next_frame == NextFrame(after)
      IN
      IF prev_frame \notin DOMAIN states THEN RaiseKeyError(prev_frame)
      ELSE IF next_frame \notin DOMAIN states THEN RaiseKeyError(next_frame)
      ELSE IF next_frame - prev_frame = 0 THEN RaiseZeroDivision
      ELSE
        LET ratio == Ratio(frame, prev_frame, next_frame) IN
        [tag |-> "fresh", prev_frame |-> prev_frame,
         next_frame |-> next_frame, ratio |-> ratio,
         value |-> interpolate_snapshot(states[prev_frame],
                                        states[next_frame], ratio)]

jump_prev_keyframe_wrap(ks, frame) ==
  LET prev == SelectSeq(ks, LAMBDA key : key < frame) IN
  IF prev # <<>> THEN prev[Len(prev)]
  ELSE IF ks # <<>> THEN ks[Len(ks)] ELSE frame

jump_prev_keyframe(ks, frame) ==
  LET prev == SelectSeq(ks, LAMBDA key : key < frame) IN
  IF prev # <<>> THEN prev[Len(prev)] ELSE frame

jump_next_keyframe(ks, frame) ==
  LET nxt == SelectSeq(ks, LAMBDA key : key > frame) IN
  IF nxt # <<>> THEN nxt[1] ELSE frame

(* The timeline object after a call of snapshot_at_frame.  The call reads
   timeline.keyframes through sorted(set(...)), which builds a new list, and
   interpolate_snapshot builds its result with replace(), which copies; no
   attribute of the timeline or of a stored snapshot is assigned. *)
TimelineAfterSnapshot_inplace(ks, states, frame) ==
  LET result == snapshot_at_frame(ks, states, frame) IN
  [keyframes |-> IF NoStates(ks, states) \/ IsExactKey(ks, states, frame)
                 THEN ks ELSE SortedKeys(ks),
   keyframe_states |->
     IF result.tag = "fresh"
     THEN [states EXCEPT ![result.prev_frame] = result.value]
     ELSE states]

TimelineAfterSnapshot(ks, states, frame) ==
  [keyframes |-> ks, keyframe_states |-> states]

(* timeline.keyframes after jump_prev_keyframe or jump_next_keyframe: the
   list comprehension reads the list and builds another *)
KeyframesAfterJump(ks, frame) == ks

(* ------------------------------ behaviour ------------------------------ *)
Loaded(tl) ==
  /\ keyframes = tl.keyframes
  /\ keyframe_states = tl.keyframe_states
  /\ current_frame = 0
  /\ ret = [op |-> "load"]

NoArgs == [fn |-> "none"]

Init ==
  /\ \E tl \in Timelines \cup {SampleTimeline} : Loaded(tl)
  /\ args = NoArgs

CallSnapshotAtFrame(frame) ==
  /\ ret' = [op |-> "snapshot_at_frame", frame |-> frame,
             result |-> snapshot_at_frame(keyframes, keyframe_states, frame)]
  /\ keyframes' = TimelineAfterSnapshot(keyframes, keyframe_states, frame).keyframes
  /\ keyframe_states' =
       TimelineAfterSnapshot(keyframes, keyframe_states, frame).keyframe_states
  /\ UNCHANGED <<current_frame, args>>

CallJumpPrevKeyframe(frame) ==
  /\ ret' = [op |-> "jump_prev_keyframe", frame |-> frame,
             result |-> jump_prev_keyframe(keyframes, frame)]
  /\ keyframes' = KeyframesAfterJump(keyframes, frame)
  /\ UNCHANGED <<keyframe_states, current_frame, args>>

CallJumpNextKeyframe(frame) ==
  /\ ret' = [op |-> "jump_next_keyframe", frame |-> frame,
             result |-> jump_next_keyframe(keyframes, frame)]
  /\ keyframes' = KeyframesAfterJump(keyframes, frame)
  /\ UNCHANGED <<keyframe_states, current_frame, args>>

Next ==
  \/ \E frame \in QueryFrames : CallSnapshotAtFrame(frame)
  \/ \E frame \in QueryFrames : CallJumpPrevKeyframe(frame)
  \/ \E frame \in QueryFrames : CallJumpNextKeyframe(frame)

Spec == Init /\ [][Next]_vars

(* interpolate_snapshot applied to arguments drawn at the start, on a
   timeline whose two keyframes hold the same pair of snapshots *)
BlendArgs ==
  {[fn |-> "interpolate_snapshot", prev |-> prev, nxt |-> nxt, t |-> t] :
     prev \in SnapshotPool, nxt \in SnapshotPool, t \in TValues}

InitBlend ==
  /\ args \in BlendArgs
  /\ Loaded([keyframes |-> <<0, TestLastKey>>,
             keyframe_states |-> (0 :> args.prev) @@ (TestLastKey :> args.nxt)])

CallInterpolateSnapshot ==
  /\ args.fn = "interpolate_snapshot"
  /\ ret' = [op |-> "interpolate_snapshot",
             result |-> interpolate_snapshot(args.prev, args.nxt, args.t)]
  /\ UNCHANGED <<keyframes, keyframe_states, current_frame, args>>

NextBlend ==
  \/ CallInterpolateSnapshot
  \/ \E frame \in 0..TestLastKey : CallSnapshotAtFrame(frame)

SpecBlend == InitBlend /\ [][NextBlend]_vars

(* _lerp_angle applied to arguments drawn at the start *)
AngleArgs ==
  {[fn |-> "_lerp_angle", start |-> start, end |-> start + d, t |-> t] :
     start \in StartAngles, d \in -MaxDelta..MaxDelta, t \in TValues}

InitAngle ==
  /\ args \in AngleArgs
  /\ Loaded(SampleTimeline)

CallLerpAngle ==
  /\ args.fn = "_lerp_angle"
  /\ ret' = [op |-> "_lerp_angle",
             delta |-> LerpAngleDelta(Q(args.start), Q(args.end)),
             result |-> _lerp_angle(Q(args.start), Q(args.end), args.t)]
  /\ UNCHANGED <<keyframes, keyframe_states, current_frame, args>>

NextAngle == CallLerpAngle

SpecAngle == InitAngle /\ [][NextAngle]_vars

(* ------------------------------ models.py ------------------------------ *)
(* A JSON object is a function on its keys; a JSON number is a rational, so
   that 10 and 10.0 are one value as they are equal in Python; a key of
   keyframeStates is a decimal string, modelled as its sequence of digits. *)
Get(raw, key, default) == IF key \in DOMAIN raw THEN raw[key] ELSE default

Without(raw, key) == [k \in DOMAIN raw \ {key} |-> raw[k]]

Ok(v) == [ok |-> TRUE, val |-> v]
KeyError(key) == [ok |-> FALSE, key |-> key]

(* the keys of `keys` that raw[...] fails on, in the order they are read *)
Missing(raw, keys) == SelectSeq(keys, LAMBDA k : k \notin DOMAIN raw)

(* the first failure of a comprehension, or the list of its values *)
AllOk(results) ==
  LET bad == SelectSeq(results, LAMBDA r : ~r.ok) IN
  IF bad # <<>> THEN bad[1]
  ELSE Ok([i \in DOMAIN results |-> results[i].val])

(* int(v) of a number: truncation towards zero *)
IntOf(q) == IF q.n >= 0 THEN q.n \div q.d ELSE -((-q.n) \div q.d)

(* float(v) of a number: the same number *)
FloatOf(q) == QNorm(q.n, q.d)

(* int(s) of a decimal string *)
RECURSIVE ParseInt(_)
ParseInt(digits) ==
  IF digits = <<>> THEN 0
  ELSE 10 * ParseInt(SubSeq(digits, 1, Len(digits) - 1)) + digits[Len(digits)]

(* str(n) of a non-negative int *)
RECURSIVE FormatInt(_)
FormatInt(n) == IF n < 10 THEN <<n>> ELSE Append(FormatInt(n \div 10), n % 10)

(* truth value of a dict, a tuple or None *)
Truthy(v) == DOMAIN v # {}

AttachmentKeys == <<"pantinId", "memberId", "offsetX", "offsetY">>

ItemKeys == <<"id", "kind", "label", "assetPath", "x", "y", "scale", "rotation", "width", "height">>

LayerKeys == <<"id", "name", "visible", "locked", "kind">>

TimelineKeys == <<"fps", "startFrame", "endFrame", "currentFrame">>

SceneItem_from_dict(raw) ==
  LET attachment_raw == Get(raw, "attachment", NoneValue)
      attachment_missing ==
        IF Truthy(attachment_raw)
        THEN Missing(attachment_raw, AttachmentKeys) ELSE <<>>
      missing == Missing(raw, ItemKeys)
  IN
  IF attachment_missing # <<>> THEN KeyError(attachment_missing[1])
  ELSE IF missing # <<>> THEN KeyError(missing[1])
  ELSE Ok([item_id |-> IntOf(raw["id"]),
           kind |-> raw["kind"],
           label |-> raw["label"],
           asset_path |-> raw["assetPath"],
           x |-> FloatOf(raw["x"]),
           y |-> FloatOf(raw["y"]),
           scale |-> FloatOf(raw["scale"]),
           rotation |-> FloatOf(raw["rotation"]),
           width |-> FloatOf(raw["width"]),
           height |-> FloatOf(raw["height"]),
           variants |-> Get(raw, "variants", EmptyDict),
           member_rotations |->
             LET rotations == Get(raw, "memberRotations", EmptyDict) IN
             [k \in DOMAIN rotations |-> FloatOf(rotations[k])],
           attachment |->
             IF Truthy(attachment_raw)
             THEN [pantin_id |-> IntOf(attachment_raw["pantinId"]),
                   member_id |-> attachment_raw["memberId"],
                   offset_x |-> FloatOf(attachment_raw["offsetX"]),
                   offset_y |-> FloatOf(attachment_raw["offsetY"])]
             ELSE NoneValue])

SceneItem_to_dict(item) ==
  [id |-> Q(item.item_id), kind |-> item.kind, label |-> item.label,
   assetPath |-> item.asset_path, x |-> item.x, y |-> item.y,
   scale |-> item.scale, rotation |-> item.rotation, width |-> item.width,
   height |-> item.height]
  @@ (IF Truthy(item.variants) THEN [variants |-> item.variants] ELSE <<>>)
  @@ (IF Truthy(item.member_rotations)
      THEN [memberRotations |-> item.member_rotations] ELSE <<>>)
  @@ (IF Truthy(item.attachment)
      THEN [attachment |->
              [pantinId |-> Q(item.attachment.pantin_id),
               memberId |-> item.attachment.member_id,
               offsetX |-> item.attachment.offset_x,
               offsetY |-> item.attachment.offset_y]]
      ELSE <<>>)

SceneSnapshot_from_dict(raw) ==
  LET size == Get(raw, "backgroundSize", NoneValue)
      size_missing ==
        IF Truthy(size) THEN Missing(size, <<"width", "height">>) ELSE <<>>
      raw_items == Get(raw, "items", <<>>)
      items == AllOk([i \in DOMAIN raw_items |-> SceneItem_from_dict(raw_items[i])])
  IN
  IF size_missing # <<>> THEN KeyError(size_missing[1])
  ELSE IF ~items.ok THEN items
  ELSE Ok(SceneSnapshot(
            Get(raw, "backgroundPath", NoneValue),
            IF Truthy(size)
            THEN <<IntOf(size["width"]), IntOf(size["height"])>> ELSE NoneValue,
            items.val))

SceneSnapshot_to_dict(scene) ==
  [backgroundPath |-> scene.background_path,
   items |-> [i \in DOMAIN scene.items |-> SceneItem_to_dict(scene.items[i])]]
  @@ (IF Truthy(scene.background_size)
      THEN [backgroundSize |-> [width |-> Q(scene.background_size[1]),
                                height |-> Q(scene.background_size[2])]]
      ELSE <<>>)

Layer_from_dict(raw) ==
  LET missing == Missing(raw, LayerKeys) IN
  IF missing # <<>> THEN KeyError(missing[1])
  ELSE Ok(Layer(IntOf(raw["id"]), raw["name"], raw["visible"], raw["locked"],
                raw["kind"]))

Layer_to_dict(layer) ==
  [id |-> Q(layer.layer_id), name |-> layer.name, visible |-> layer.visible,
   locked |-> layer.locked, kind |-> layer.kind]

KeyframeSnapshot_from_dict(raw) ==
  LET layers_raw == Get(raw, "layers", <<>>)
      scene == SceneSnapshot_from_dict(Get(raw, "scene", <<>>))
      raw_layers == Get(layers_raw, "items", <<>>)
      layers == AllOk([i \in DOMAIN raw_layers |-> Layer_from_dict(raw_layers[i])])
      active == Get(layers_raw, "activeLayerId", NoneValue)
  IN
  IF ~scene.ok THEN scene
  ELSE IF ~layers.ok THEN layers
  ELSE Ok(KeyframeSnapshot(scene.val, layers.val, active))

KeyframeSnapshot_to_dict(snapshot) ==
  [scene |-> SceneSnapshot_to_dict(snapshot.scene),
   layers |-> [items |-> [i \in DOMAIN snapshot.layers |->
                            Layer_to_dict(snapshot.layers[i])],
               activeLayerId |-> snapshot.active_layer_id]]

(* timeline_raw.get("loopEnabled", True) *)
LoopEnabledOf(timeline_raw) == Get(timeline_raw, "loopEnabled", TRUE)

(* raw.get("version", 1) *)
VersionOf(raw) == IntOf(Get(raw, "version", Q(1)))

Project_from_dict(raw) ==
  IF "timeline" \notin DOMAIN raw THEN KeyError("timeline")
  ELSE
    LET timeline_raw == raw["timeline"]
        states_raw == Get(timeline_raw, "keyframeStates", <<>>)
        frames == {ParseInt(f) : f \in DOMAIN states_raw}
        loaded == [k \in frames |->
                     KeyframeSnapshot_from_dict(
                       states_raw[CHOOSE f \in DOMAIN states_raw : ParseInt(f) = k])]
        failed == {k \in frames : ~loaded[k].ok}
        missing == Missing(timeline_raw, TimelineKeys)
        keyframes_raw == Get(timeline_raw, "keyframes", <<>>)
    IN
    IF failed # {} THEN loaded[SetMin(failed)]
    ELSE IF missing # <<>> THEN KeyError(missing[1])
    ELSE Ok([version |-> VersionOf(raw),
             timeline |->
               [fps |-> IntOf(timeline_raw["fps"]),
                start_frame |-> IntOf(timeline_raw["startFrame"]),
                end_frame |-> IntOf(timeline_raw["endFrame"]),
                current_frame |-> IntOf(timeline_raw["currentFrame"]),
                keyframes |-> [i \in DOMAIN keyframes_raw |->
                                 IntOf(keyframes_raw[i])],
                keyframe_states |-> [k \in frames |-> loaded[k].val],
                loop_enabled |-> LoopEnabledOf(timeline_raw)]])

Project_to_dict(project) ==
  LET timeline == project.timeline IN
  [version |-> Q(project.version),
   timeline |->
     [fps |-> Q(timeline.fps),
      startFrame |-> Q(timeline.start_frame),
      endFrame |-> Q(timeline.end_frame),
      currentFrame |-> Q(timeline.current_frame),
      keyframes |-> [i \in DOMAIN timeline.keyframes |-> Q(timeline.keyframes[i])],
      keyframeStates |->
        [f \in {FormatInt(k) : k \in DOMAIN timeline.keyframe_states} |->
           KeyframeSnapshot_to_dict(timeline.keyframe_states[ParseInt(f)])],
      loopEnabled |-> timeline.loop_enabled]]

(* --------------------------- project documents ------------------------- *)
RawLayer(id, name, visible, locked, kind) ==
  [id |-> Q(id), name |-> name, visible |-> visible, locked |-> locked,
   kind |-> kind]

(* the two keyframe states of _sample_project_dict; activeLayerId is kept
   as read, without conversion *)
RawFirst ==
  [scene |->
     [backgroundPath |-> "/decors/defaut.png",
      items |-> <<[id |-> Q(1), kind |-> "objet", label |-> "Test",
                   assetPath |-> "/objets/wow.svg", x |-> Q(10), y |-> Q(10),
                   scale |-> Q(1), rotation |-> Q(0), width |-> Q(100),
                   height |-> Q(60)]>>],
   layers |-> [items |-> <<RawLayer(1, "Test", TRUE, FALSE, "item")>>,
               activeLayerId |-> 1]]

RawLast ==
  [scene |->
     [backgroundPath |-> "/decors/defaut.png",
      items |-> <<[id |-> Q(1), kind |-> "objet", label |-> "Test",
                   assetPath |-> "/objets/wow.svg", x |-> Q(110), y |-> Q(210),
                   scale |-> Q(2), rotation |-> Q(90), width |-> Q(100),
                   height |-> Q(60)]>>],
   layers |-> [items |-> <<RawLayer(1, "Test", TRUE, FALSE, "item")>>,
               activeLayerId |-> 1]]

(* a keyframe state carrying every optional field, non-empty *)
RawOther ==
  [scene |->
     [backgroundPath |-> "/decors/nuit.png",
      backgroundSize |-> [width |-> Q(800), height |-> Q(600)],
      items |-> <<[id |-> Q(2), kind |-> "pantin", label |-> "Bras",
                   assetPath |-> "/pantins/bras.svg", x |-> Q(-40), y |-> Q(30),
                   scale |-> Q(3), rotation |-> Q(350), width |-> Q(20),
                   height |-> Q(80), variants |-> [tenue |-> "rouge"],
                   memberRotations |-> [coude |-> Q(45)],
                   attachment |-> [pantinId |-> Q(1), memberId |-> "main",
                                   offsetX |-> Q(5), offsetY |-> Q(-5)]],
                  [id |-> Q(1), kind |-> "decor", label |-> "Autre",
                   assetPath |-> "/objets/autre.svg", x |-> Q(0), y |-> Q(50),
                   scale |-> Q(4), rotation |-> Q(270), width |-> Q(10),
                   height |-> Q(10), variants |-> [tenue |-> "bleu"]]>>],
   layers |-> [items |-> <<RawLayer(2, "Bras", FALSE, TRUE, "pantin"),
                           RawLayer(1, "Autre", TRUE, FALSE, "item")>>,
               activeLayerId |-> 2]]

(* keyframeStates objects: the sample's, one with the optional fields, one
   with a single key, the empty one *)
RawStatesSeq ==
  << (<<0>> :> RawFirst) @@ (<<1, 0>> :> RawLast),
     (<<0>> :> RawOther) @@ (<<1, 0>> :> RawFirst),
     (<<0>> :> RawLast),
     <<>> >>

RawKeyframesSeq == << <<0, TestLastKey>>, <<TestLastKey, 0, TestLastKey>>, <<>> >>

(* the loopEnabled member: absent as in the sample, or present *)
RawLoopSeq == << <<>>, [loopEnabled |-> TRUE], [loopEnabled |-> FALSE] >>

RawVersions == {1, 2}

RawProject(version, ks, states, loop) ==
  [version |-> Q(version),
   timeline |->
     [fps |-> Q(24), startFrame |-> Q(0), endFrame |-> Q(TestLastKey),
      currentFrame |-> Q(TestFrame),
      keyframes |-> [i \in DOMAIN ks |-> Q(ks[i])],
      keyframeStates |-> states] @@ loop]

(* _sample_project_dict() *)
SampleProjectDict ==
  RawProject(1, RawKeyframesSeq[1], RawStatesSeq[1], RawLoopSeq[1])

RawProjects ==
  {RawProject(v, RawKeyframesSeq[i], RawStatesSeq[j], RawLoopSeq[l]) :
     v \in RawVersions, i \in DOMAIN RawKeyframesSeq,
     j \in DOMAIN RawStatesSeq, l \in DOMAIN RawLoopSeq}

(* members the documented format requires *)
RequiredPaths ==
  << <<"version">>,
     <<"timeline">>,
     <<"timeline", "fps">>,
     <<"timeline", "startFrame">>,
     <<"timeline", "endFrame">>,
     <<"timeline", "currentFrame">>,
     <<"timeline", "keyframes">>,
     <<"timeline", "keyframeStates">>,
     <<"timeline", "keyframeStates", <<0>>, "scene">>,
     <<"timeline", "keyframeStates", <<0>>, "layers">>,
     <<"timeline", "keyframeStates", <<0>>, "scene", "items", 1, "id">>,
     <<"timeline", "keyframeStates", <<0>>, "scene", "items", 1, "x">>,
     <<"timeline", "keyframeStates", <<0>>, "layers", "items", 1, "name">> >>

(* the document without the member at `path`, if it has one *)
RECURSIVE DropPath(_, _)
DropPath(v, path) ==
  IF path[1] \notin DOMAIN v THEN v
  ELSE IF Len(path) = 1 THEN Without(v, path[1])
  ELSE [k \in DOMAIN v |->
          IF k = path[1] THEN DropPath(v[k], Tail(path)) ELSE v[k]]

(* ----------------------------- loading a file -------------------------- *)
LoadArgs ==
  {[fn |-> "from_dict", raw |-> DropPath(doc, RequiredPaths[i]),
    missing |-> IF DropPath(doc, RequiredPaths[i]) = doc THEN 0 ELSE i] :
     doc \in RawProjects, i \in DOMAIN RequiredPaths}
  \cup {[fn |-> "from_dict", raw |-> doc, missing |-> 0] : doc \in RawProjects}

NotLoaded ==
  /\ keyframes = <<>>
  /\ keyframe_states = <<>>
  /\ current_frame = 0
  /\ ret = [op |-> "start"]

InitLoad == NotLoaded /\ args \in LoadArgs

CallProjectFromDict ==
  /\ args.fn = "from_dict"
  /\ ret' = [op |-> "from_dict", result |-> Project_from_dict(args.raw)]
  /\ UNCHANGED <<keyframes, keyframe_states, current_frame, args>>

(* Project.from_dict(x).to_dict(), as in test_roundtrip_project_serialization *)
CallRoundTrip ==
  /\ args.fn = "from_dict"
  /\ LET project == Project_from_dict(args.raw) IN
     ret' = [op |-> "to_dict",
             result |-> IF project.ok THEN Ok(Project_to_dict(project.val))
                        ELSE project]
  /\ UNCHANGED <<keyframes, keyframe_states, current_frame, args>>

NextLoad == CallProjectFromDict \/ CallRoundTrip

SpecLoad == InitLoad /\ [][NextLoad]_vars

(* --------------------------- keyframe navigation ----------------------- *)
(* presses in a row are counted up to MaxPresses, more than a timeline has
   keyframes *)
MaxPresses == MaxKeys + 1

(* timelines whose listed keyframes each have a stored state *)
NavTimelines ==
  {tl \in Timelines \cup {SampleTimeline} :
     DOMAIN tl.keyframe_states = Range(tl.keyframes)}

(* what _sync_ui shows: the snapshot resolved at the current frame *)
SyncUi(ks, states, frame) == snapshot_at_frame(ks, states, frame)

(* the number of presses of `op` in a row, this one included *)
Run(op) ==
  IF ret.op = op /\ ret.run < MaxPresses THEN ret.run + 1
  ELSE IF ret.op = op THEN MaxPresses
  ELSE 1

InitNav ==
  /\ \E tl \in NavTimelines :
       /\ keyframes = tl.keyframes
       /\ keyframe_states = tl.keyframe_states
  /\ current_frame \in QueryFrames
  /\ args = NoArgs
  /\ ret = [op |-> "__init__", before |-> current_frame, run |-> 0,
            shown |-> SyncUi(keyframes, keyframe_states, current_frame)]

OnPrevKeyframe ==
  LET current == current_frame IN
  /\ current_frame' = jump_prev_keyframe(keyframes, current)
  /\ ret' = [op |-> "_on_prev_keyframe", before |-> current,
             run |-> Run("_on_prev_keyframe"),
             shown |-> SyncUi(keyframes, keyframe_states, current_frame')]
  /\ UNCHANGED <<keyframes, keyframe_states, args>>

OnNextKeyframe ==
  LET current == current_frame IN
  /\ current_frame' = jump_next_keyframe(keyframes, current)
  /\ ret' = [op |-> "_on_next_keyframe", before |-> current,
             run |-> Run("_on_next_keyframe"),
             shown |-> SyncUi(keyframes, keyframe_states, current_frame')]
  /\ UNCHANGED <<keyframes, keyframe_states, args>>

OnFrameChanged(frame) ==
  /\ current_frame' = frame
  /\ ret' = [op |-> "_on_frame_changed", before |-> current_frame, run |-> 0,
             shown |-> SyncUi(keyframes, keyframe_states, frame)]
  /\ UNCHANGED <<keyframes, keyframe_states, args>>

NextNav ==
  \/ OnPrevKeyframe
  \/ OnNextKeyframe
  \/ \E frame \in QueryFrames : OnFrameChanged(frame)

SpecNav == InitNav /\ [][NextNav]_vars

(* ------------------------------- claims -------------------------------- *)
KeySet == Range(keyframes)
StateKeys == DOMAIN keyframe_states
LowerKeys(frame) == {k \in KeySet : k < frame}
UpperKeys(frame) == {k \in KeySet : k > frame}
IsSnapshotCall == ret.op = "snapshot_at_frame"
StoredAt(k) == [tag |-> "stored", key |-> k, value |-> keyframe_states[k]]
IsSorted(s) == \A i, j \in DOMAIN s : i < j => s[i] < s[j]

(* C1: jump_prev_keyframe returns the maximum of the keyframe numbers
   strictly below frame, whatever the storage order, and frame itself when
   there is none. *)
C1_PrevIsMaxBelow ==
  ret.op = "jump_prev_keyframe" =>
    ret.result = (IF LowerKeys(ret.frame) = {} THEN ret.frame
                  ELSE SetMax(LowerKeys(ret.frame)))

(* C2: jump_next_keyframe returns the minimum of the keyframe numbers
   strictly above frame, whatever the storage order, and frame itself when
   there is none. *)
C2_NextIsMinAbove ==
  ret.op = "jump_next_keyframe" =>
    ret.result = (IF UpperKeys(ret.frame) = {} THEN ret.frame
                  ELSE SetMin(UpperKeys(ret.frame)))

(* k takes part in resolving frame: it is the frame itself, or frame is not
   a stored key and k is its bracketing previous or next key (the clamp
   target is the next key below the first keyframe and the previous key
   above the last one). *)
Involves(k, frame) ==
  \/ frame = k
  \/ /\ frame \notin StateKeys
     /\ \/ (LowerKeys(frame) # {} /\ k = SetMax(LowerKeys(frame)))
        \/ (UpperKeys(frame) # {} /\ k = SetMin(UpperKeys(frame)))

(* C3: when a keyframe number without an entry in keyframe_states takes part
   in resolving a frame, snapshot_at_frame ends in an explicit error: never
   None, never a blend or clamp that skips it. *)
C3_DanglingFailsLoudly ==
  (IsSnapshotCall /\ \E k \in KeySet \ StateKeys : Involves(k, ret.frame))
    => ret.result.tag = "KeyError"

(* C4: with at least one keyframe snapshot_at_frame returns a snapshot and
   never None; None is returned only when the timeline has no keyframes. *)
C4_DefinedWithKeyframes ==
  IsSnapshotCall =>
    /\ keyframes # <<>> => ret.result.tag \in {"stored", "fresh"}
    /\ ret.result.tag = "none" => keyframes = <<>>

(* C5: for a frame that is a key of keyframe_states, snapshot_at_frame
   returns the very snapshot stored under it, whatever keyframes holds. *)
C5_ExactKeyReturnsStored ==
  (IsSnapshotCall /\ ret.frame \in StateKeys) => ret.result = StoredAt(ret.frame)

C5_Witness ==
  /\ IsSnapshotCall
  /\ ret.frame \in StateKeys
  /\ ret.frame \notin KeySet
  /\ KeySet # {}
  /\ ret.result.tag = "stored"
  /\ ret.result.key = ret.frame

(* C6 as stated: below every keyframe number the result is the stored
   snapshot of the smallest one, above every keyframe number that of the
   largest one, also for unsorted or duplicated keyframes. *)
C6_ClampAlways ==
  (IsSnapshotCall /\ keyframes # <<>>) =>
    /\ (\A k \in KeySet : ret.frame < k)
         => (SetMin(KeySet) \in StateKeys /\ ret.result = StoredAt(SetMin(KeySet)))
    /\ (\A k \in KeySet : ret.frame > k)
         => (SetMax(KeySet) \in StateKeys /\ ret.result = StoredAt(SetMax(KeySet)))

(* the outcome of the unguarded access keyframe_states[k] *)
StoredOrKeyError(k) ==
  IF k \in StateKeys THEN StoredAt(k) ELSE [tag |-> "KeyError", key |-> k]

(* C6 as amended: when keyframe_states is non-empty and frame is not itself
   one of its keys, a frame below every keyframe number resolves to the
   stored snapshot of the smallest keyframe number and a frame above every
   keyframe number to that of the largest one, unblended, also for unsorted
   or duplicated keyframes; the access raises KeyError when that keyframe
   number has no entry. *)
C6_ClampWhenNotStored ==
  (IsSnapshotCall /\ keyframes # <<>> /\ StateKeys # {}
     /\ ret.frame \notin StateKeys) =>
    /\ (\A k \in KeySet : ret.frame < k)
         => ret.result = StoredOrKeyError(SetMin(KeySet))
    /\ (\A k \in KeySet : ret.frame > k)
         => ret.result = StoredOrKeyError(SetMax(KeySet))

C6_Witness ==
  /\ IsSnapshotCall
  /\ ret.frame \notin StateKeys
  /\ Len(keyframes) = 3
  /\ keyframes[1] > keyframes[2]
  /\ keyframes[3] = keyframes[1]
  /\ \A k \in KeySet : ret.frame > k
  /\ ret.result.tag = "stored"
  /\ ret.result.key = keyframes[1]

StrictlyInside(frame) == LowerKeys(frame) # {} /\ UpperKeys(frame) # {}

(* what C7 says of a blended result: the bracketing keys, the ratio and the
   blend of the two stored snapshots *)
BracketOf(frame, res) ==
  LET p == SetMax(LowerKeys(frame))
      n == SetMin(UpperKeys(frame))
  IN /\ res.tag = "fresh"
     /\ res.prev_frame = p
     /\ res.next_frame = n
     /\ n - p # 0
     /\ res.ratio.n * (n - p) = (frame - p) * res.ratio.d
     /\ 0 < res.ratio.n
     /\ res.ratio.n < res.ratio.d
     /\ p \in StateKeys
     /\ n \in StateKeys
     /\ res.value = interpolate_snapshot(keyframe_states[p],
                                         keyframe_states[n], res.ratio)

NoKeyBetween(res, except) ==
  ~ \E k \in KeySet \ except : res.prev_frame < k /\ k < res.next_frame

(* C7 as stated: a frame that is not an exact key and lies strictly between
   the smallest and largest keyframe number resolves to the blend of the
   snapshots of its bracketing keys prev and next with ratio
   (frame - prev) / (next - prev) in (0, 1), no keyframe number lying
   strictly between prev and next. *)
C7_BlendBetweenAlways ==
  (IsSnapshotCall /\ ret.frame \notin StateKeys /\ StrictlyInside(ret.frame))
    => (BracketOf(ret.frame, ret.result) /\ NoKeyBetween(ret.result, {}))

(* C7 as amended: when keyframe_states is non-empty and frame is not one of
   its keys, a frame strictly between the smallest and largest keyframe
   number resolves to the blend of the snapshots stored under its bracketing
   keys prev and next, with ratio (frame - prev) / (next - prev) in (0, 1)
   and a non-zero divisor, no keyframe number other than frame itself lying
   strictly between prev and next; the access raises KeyError when prev (or
   else next) has no entry in keyframe_states. *)
C7_BlendBetweenStored ==
  (IsSnapshotCall /\ StateKeys # {} /\ ret.frame \notin StateKeys
     /\ StrictlyInside(ret.frame)) =>
    LET p == SetMax(LowerKeys(ret.frame))
        n == SetMin(UpperKeys(ret.frame))
    IN IF p \notin StateKeys THEN ret.result = [tag |-> "KeyError", key |-> p]
       ELSE IF n \notin StateKeys
         THEN ret.result = [tag |-> "KeyError", key |-> n]
       ELSE /\ BracketOf(ret.frame, ret.result)
            /\ NoKeyBetween(ret.result, {ret.frame})

C7_Witness ==
  /\ IsSnapshotCall
  /\ ret.result.tag = "fresh"
  /\ ret.frame \notin KeySet
  /\ Cardinality(KeySet) = 3
  /\ ~IsSorted(keyframes)
  /\ ret.result.ratio = [n |-> 1, d |-> 2]
  /\ keyframe_states[ret.result.prev_frame] # keyframe_states[ret.result.next_frame]

ItemIds(items) == {items[i].item_id : i \in DOMAIN items}
ItemOf(items, id) == items[CHOOSE j \in DOMAIN items : items[j].item_id = id]

(* r = a + (b - a) * t, by cross-multiplication of the fractions *)
IsLerp(r, a, b, t) ==
  r.n * (a.d * b.d * t.d)
    = r.d * (a.n * b.d * t.d + (b.n * a.d - a.n * b.d) * t.n)

SharedItemsBlended(P, N, t, R) ==
  \A i \in DOMAIN P :
    P[i].item_id \in ItemIds(N) =>
      /\ i \in DOMAIN R
      /\ LET a == P[i]
             b == ItemOf(N, a.item_id)
             r == R[i]
         IN /\ IsLerp(r.x, a.x, b.x, t)
            /\ IsLerp(r.y, a.y, b.y, t)
            /\ IsLerp(r.scale, a.scale, b.scale, t)
            /\ r.item_id = a.item_id
            /\ r.kind = a.kind
            /\ r.label = a.label
            /\ r.asset_path = a.asset_path
            /\ r.width = a.width
            /\ r.height = a.height
            /\ r.variants = a.variants
            /\ r.member_rotations = a.member_rotations
            /\ r.attachment = a.attachment

IsSampleTimeline ==
  /\ keyframes = <<0, TestLastKey>>
  /\ keyframe_states = (0 :> SnapFirst) @@ (TestLastKey :> SnapLast)

(* C8: in a blended snapshot every item of prev whose id occurs in next has
   x, y and scale equal to a + (b - a) * t and every other field equal to
   the prev item's; the sample keyframes 0 and 10 resolved at frame 5 give
   x = 60, y = 110, scale = 1.5. *)
C8_SharedItemsLerp ==
  /\ ret.op = "interpolate_snapshot" =>
       SharedItemsBlended(args.prev.scene.items, args.nxt.scene.items,
                          args.t, ret.result.scene.items)
  /\ (IsSnapshotCall /\ ret.result.tag = "fresh") =>
       SharedItemsBlended(keyframe_states[ret.result.prev_frame].scene.items,
                          keyframe_states[ret.result.next_frame].scene.items,
                          ret.result.ratio, ret.result.value.scene.items)
  /\ (IsSnapshotCall /\ IsSampleTimeline /\ ret.frame = TestFrame) =>
       /\ ret.result.tag = "fresh"
       /\ ret.result.value.scene.items[1].x = [n |-> 60, d |-> 1]
       /\ ret.result.value.scene.items[1].y = [n |-> 110, d |-> 1]
       /\ ret.result.value.scene.items[1].scale = [n |-> 3, d |-> 2]

C8_Witness ==
  /\ IsSnapshotCall
  /\ IsSampleTimeline
  /\ ret.frame = TestFrame
  /\ ret.result.tag = "fresh"
  /\ ret.result.value.scene.items[1].x = [n |-> 60, d |-> 1]

IdsFollowPrev(P, N, R) ==
  /\ DOMAIN R = DOMAIN P
  /\ \A i \in DOMAIN P :
       /\ R[i].item_id = P[i].item_id
       /\ P[i].item_id \notin ItemIds(N) => R[i] = P[i]
  /\ \A j \in DOMAIN N :
       N[j].item_id \notin ItemIds(P) => N[j].item_id \notin ItemIds(R)

(* C9: the item ids of interpolate_snapshot(prev, next, t) are those of
   prev.scene.items in the same order: an item only in next never appears in
   a blended frame, an item only in prev appears unchanged at every blended
   frame between the two keyframes and is gone at the later keyframe's exact
   frame, where the stored items are returned. *)
C9_ItemsFollowPrev ==
  /\ ret.op = "interpolate_snapshot" =>
       IdsFollowPrev(args.prev.scene.items, args.nxt.scene.items,
                     ret.result.scene.items)
  /\ (IsSnapshotCall /\ 0 < ret.frame /\ ret.frame < TestLastKey) =>
       /\ ret.result.tag = "fresh"
       /\ IdsFollowPrev(keyframe_states[0].scene.items,
                        keyframe_states[TestLastKey].scene.items,
                        ret.result.value.scene.items)
  /\ (IsSnapshotCall /\ ret.frame = TestLastKey) =>
       /\ ret.result.tag = "stored"
       /\ ret.result.value.scene.items
            = keyframe_states[TestLastKey].scene.items

C9_Witness ==
  /\ IsSnapshotCall
  /\ ret.result.tag = "fresh"
  /\ keyframe_states[0] = SnapOther
  /\ keyframe_states[TestLastKey] = SnapFirst
  /\ Len(ret.result.value.scene.items) = 2
  /\ ret.result.value.scene.items[1] = SnapOther.scene.items[1]
  /\ ret.result.value.scene.items[2] # SnapOther.scene.items[2]

(* what both readings of C10 share: delta is an integer congruent to
   end - start modulo 360, and the result is start + delta * t *)
DeltaCongruent ==
  /\ ret.delta.d = 1
  /\ (ret.delta.n - (args.end - args.start)) % 360 = 0
  /\ ret.result.n * args.t.d
       = ret.result.d * (args.start * args.t.d + ret.delta.n * args.t.n)

Opposite == (args.end - args.start) % 360 = 180

(* C10 as stated: the delta of _lerp_angle is congruent to end - start
   modulo 360 and lies in (-180, 180]: never -180, and +180 for opposite
   angles; the result is start + delta * t. *)
C10_DeltaHalfOpenAbove ==
  ret.op = "_lerp_angle" =>
    /\ DeltaCongruent
    /\ -180 < ret.delta.n
    /\ ret.delta.n <= 180
    /\ Opposite => ret.delta.n = 180

(* C10 as amended: the delta is congruent to end - start modulo 360 and lies
   in [-180, 180): never +180, and -180 for opposite angles; the result is
   start + delta * t. *)
C10_DeltaHalfOpenBelow ==
  ret.op = "_lerp_angle" =>
    /\ DeltaCongruent
    /\ -180 <= ret.delta.n
    /\ ret.delta.n < 180
    /\ Opposite => ret.delta.n = -180

C10_Witness ==
  /\ ret.op = "_lerp_angle"
  /\ args.start = 350
  /\ args.end = 170
  /\ ret.delta = [n |-> -180, d |-> 1]
  /\ args.t = [n |-> 1, d |-> 2]
  /\ ret.result = [n |-> 260, d |-> 1]

(* ---- C11 ---- *)
WellFormed == args.fn = "from_dict" /\ args.missing = 0

(* C11: for every well-formed project document, one omitting loopEnabled
   included, Project.from_dict followed by to_dict gives the document back. *)
C11_RoundTrip ==
  (ret.op = "to_dict" /\ WellFormed) => ret.result = Ok(args.raw)

(* ---- C12 ---- *)
(* C12: snapshot_at_frame (and interpolate_snapshot called by it),
   jump_prev_keyframe and jump_next_keyframe leave keyframes, keyframe_states
   (its keys and every stored snapshot) and current_frame as they were, and a
   blended snapshot is not stored under the frame it was computed for. *)
C12_InputsUnchanged ==
  [][/\ keyframes' = keyframes
     /\ keyframe_states' = keyframe_states
     /\ current_frame' = current_frame
     /\ (ret'.op = "snapshot_at_frame" /\ ret'.result.tag = "fresh")
          => ret'.frame \notin DOMAIN keyframe_states']_vars

(* a blend was computed between keys 0 and 2 of a timeline listing them out
   of order; the list and the stored snapshots are as loaded *)
C12_Witness ==
  /\ ret.op = "snapshot_at_frame"
  /\ ret.result.tag = "fresh"
  /\ ret.frame = 1
  /\ ret.result.prev_frame = 0
  /\ ret.result.next_frame = 2
  /\ keyframes = <<2, 0>>
  /\ keyframe_states = (0 :> SnapFirst) @@ (2 :> SnapOther)
  /\ ret.result.value # SnapFirst

(* ---- C13 ---- *)
(* C13: a document with a required member missing fails to load: from_dict
   raises and no Project is produced. *)
C13_MissingRequiredFails ==
  (ret.op = "from_dict" /\ args.missing # 0) => ~ret.result.ok

(* ---- C14 ---- *)
(* C14: with the keyframe list fixed, in any storage order, a press of
   'previous keyframe' never increases current_frame: it lowers it to a
   keyframe number or leaves it as it is, and after as many presses in a row
   as there are distinct keyframe numbers a further press changes nothing;
   symmetrically for 'next keyframe'. *)
C14_PressesMonotone ==
  [][/\ ret'.op = "_on_prev_keyframe" =>
          /\ keyframes' = keyframes
          /\ current_frame' <= current_frame
          /\ current_frame' = current_frame \/ current_frame' \in KeySet
          /\ ret'.run >= Cardinality(KeySet) =>
               jump_prev_keyframe(keyframes', current_frame') = current_frame'
     /\ ret'.op = "_on_next_keyframe" =>
          /\ keyframes' = keyframes
          /\ current_frame' >= current_frame
          /\ current_frame' = current_frame \/ current_frame' \in KeySet
          /\ ret'.run >= Cardinality(KeySet) =>
               jump_next_keyframe(keyframes', current_frame') = current_frame']_vars

(* three presses of 'previous keyframe' in a row on three keyframes, each
   lowering the frame, the last one from 1 to 0 where it stays *)
C14_Witness ==
  /\ ret.op = "_on_prev_keyframe"
  /\ keyframes = <<0, 1, 2>>
  /\ ret.run = Cardinality(KeySet)
  /\ ret.before = 1
  /\ current_frame = 0
  /\ jump_prev_keyframe(keyframes, current_frame) = current_frame

TypeOK ==
  ret.op \in {"start", "from_dict", "to_dict", "load", "__init__",
              "_on_prev_keyframe", "_on_next_keyframe", "_on_frame_changed",
              "snapshot_at_frame", "jump_prev_keyframe", "jump_next_keyframe",
              "interpolate_snapshot", "_lerp_angle"}
====
